---- MODULE Spec2Model ----
(***************************************************************************)
(* Clause extraction of the DocumentAnalysis page (parseNestedClauses, the *)
(* per-object fallback on the inner block, parseMethod, generateSummary),  *)
(* and four more components, each with a specification of its own over the *)
(* same variables: apiClient (SpecApi), SessionProvider with the redirect  *)
(* of DocumentAnalysis (SpecSession), VoiceAssistantTab (SpecVoice) and    *)
(* the News page (SpecNews).  The actions of one component leave the       *)
(* variables of the others unchanged.                                      *)
(*                                                                         *)
(* A JavaScript string is a sequence of tokens.  A token is one character  *)
(* the code's regular expressions and JSON.parse look at ([ ] { } , : the  *)
(* double quote, the backslash, a blank), the three backticks of a fence,  *)
(* or a maximal run of letters or digits (a word such as clause_text, a    *)
(* digit).  Two word tokens are never adjacent and a backslash is only     *)
(* followed by a quote, a backslash or one of the words n and r.           *)
(***************************************************************************)
EXTENDS Integers, Sequences, FiniteSets, TLC

QUOTE == "\""
BSLASH == "\\"
FENCE == "<fence>"
SP == " "
LF == "<LF>"
CR == "<CR>"
WS == {SP, LF, CR}

DigitTok == <<"0", "1", "2", "3", "4", "5", "6", "7", "8", "9">>
Digits == {DigitTok[i] : i \in 1..10}
DigitVal(t) == CHOOSE n \in 0..9 : DigitTok[n + 1] = t

(***************************************************************************)
(* CHOOSE res \in {e : v \in {x}} : TRUE is e for v the value of x; x is   *)
(* computed once, however often e reads v.                                 *)
(*                                                                         *)
(* JSON values.  Every value is a record of one shape; k is the kind.      *)
(***************************************************************************)
Undef == [k |-> "undef", n |-> 0, s |-> <<>>, a |-> <<>>, o |-> <<>>]
Null == [k |-> "null", n |-> 0, s |-> <<>>, a |-> <<>>, o |-> <<>>]
Num(i) == [k |-> "num", n |-> i, s |-> <<>>, a |-> <<>>, o |-> <<>>]
Bool(b) == [k |-> "bool", n |-> IF b THEN 1 ELSE 0, s |-> <<>>, a |-> <<>>, o |-> <<>>]
Str(toks) == [k |-> "str", n |-> 0, s |-> toks, a |-> <<>>, o |-> <<>>]
Arr(elems) == [k |-> "arr", n |-> 0, s |-> <<>>, a |-> elems, o |-> <<>>]
Obj(entries) == [k |-> "obj", n |-> 0, s |-> <<>>, a |-> <<>>, o |-> entries]
KV(name, v) == [key |-> <<name>>, val |-> v]
Word(w) == Str(<<w>>)

Nullish(v) == v.k \in {"undef", "null"}
\* a ?? b
Coalesce(a, b) == IF Nullish(a) THEN b ELSE a
\* JavaScript truthiness of a JSON value
Truthy(v) ==
    CASE v.k \in {"undef", "null"} -> FALSE
      [] v.k = "num" -> v.n # 0
      [] v.k = "bool" -> v.n = 1
      [] v.k = "str" -> v.s # <<>>
      [] OTHER -> TRUE

RECURSIVE LastIdx(_, _, _)
\* index of the last entry of an object with the given key, 0 when there is none
LastIdx(entries, key, i) ==
    IF i = 0 THEN 0
    ELSE IF entries[i].key = key THEN i
    ELSE LastIdx(entries, key, i - 1)

\* v.name (property access on a non-nullish value; only own JSON properties
\* carry the names the code reads)
Get(v, name) ==
    IF v.k # "obj" THEN Undef
    ELSE LET i == LastIdx(v.o, <<name>>, Len(v.o))
         IN  IF i = 0 THEN Undef ELSE v.o[i].val

\* v?.name
OptGet(v, name) == IF Nullish(v) THEN Undef ELSE Get(v, name)

\* v?.[0]
OptFirst(v) ==
    CASE Nullish(v) -> Undef
      [] v.k = "arr" -> IF Len(v.a) >= 1 THEN v.a[1] ELSE Undef
      [] v.k = "str" -> IF Len(v.s) >= 1 THEN Str(<<v.s[1]>>) ELSE Undef
      [] v.k = "obj" -> Get(v, "0")
      [] OTHER -> Undef

(***************************************************************************)
(* JSON.stringify                                                          *)
(***************************************************************************)
EscapeTok(t) ==
    CASE t = QUOTE -> <<BSLASH, QUOTE>>
      [] t = BSLASH -> <<BSLASH, BSLASH>>
      [] t = LF -> <<BSLASH, "n">>
      [] t = CR -> <<BSLASH, "r">>
      [] OTHER -> <<t>>

RECURSIVE EscapeRange(_, _, _)
\* the escaped form of toks[lo..hi] (halving keeps the evaluation shallow)
EscapeRange(toks, lo, hi) ==
    IF lo > hi THEN <<>>
    ELSE IF lo = hi THEN EscapeTok(toks[lo])
    ELSE (CHOOSE res \in {
        EscapeRange(toks, lo, mid) \o EscapeRange(toks, mid + 1, hi)
        : mid \in {(lo + hi) \div 2}} : TRUE)

EscapeStr(toks) == (CHOOSE res \in {EscapeRange(t, 1, Len(t)) : t \in {toks}} : TRUE)

Quoted(toks) == <<QUOTE>> \o EscapeStr(toks) \o <<QUOTE>>

RECURSIVE Stringify(_), StringifyElems(_, _), StringifyEntries(_, _)
Stringify(v) ==
    CASE v.k \in {"undef", "null"} -> <<"null">>
      [] v.k = "num" -> <<DigitTok[v.n + 1]>>
      [] v.k = "bool" -> <<IF v.n = 1 THEN "true" ELSE "false">>
      [] v.k = "str" -> Quoted(v.s)
      [] v.k = "arr" -> <<"[">> \o StringifyElems(v.a, 1) \o <<"]">>
      [] v.k = "obj" -> <<"{">> \o StringifyEntries(v.o, 1) \o <<"}">>

StringifyElems(elems, i) ==
    IF i > Len(elems) THEN <<>>
    ELSE (IF i > 1 THEN <<",">> ELSE <<>>) \o Stringify(elems[i])
         \o StringifyElems(elems, i + 1)

StringifyEntries(entries, i) ==
    IF i > Len(entries) THEN <<>>
    ELSE (IF i > 1 THEN <<",">> ELSE <<>>) \o Quoted(entries[i].key) \o <<":">>
         \o Stringify(entries[i].val) \o StringifyEntries(entries, i + 1)

(***************************************************************************)
(* JSON.parse: [ok, val, pos]; ok = FALSE is the SyntaxError.              *)
(***************************************************************************)
Fail == [ok |-> FALSE, val |-> Undef, pos |-> 0]
Ok(v, p) == [ok |-> TRUE, val |-> v, pos |-> p]

RECURSIVE SkipWs(_, _)
SkipWs(s, i) == IF i <= Len(s) /\ s[i] \in WS THEN SkipWs(s, i + 1) ELSE i

Unescape(t) ==
    CASE t = "n" -> LF
      [] t = "r" -> CR
      [] OTHER -> t

\* one character of a string literal: mode is norm (inside the literal), esc
\* (after a backslash), done (closing quote read, pos follows it) or fail
StrStep(s, st, p) ==
    CASE st.mode = "norm" /\ s[p] = QUOTE -> [st EXCEPT !.mode = "done", !.pos = p + 1]
      [] st.mode = "norm" /\ s[p] = BSLASH -> [st EXCEPT !.mode = "esc"]
      [] st.mode = "norm" /\ s[p] \in {LF, CR} -> [st EXCEPT !.mode = "fail"]
      [] st.mode = "norm" -> [st EXCEPT !.acc = Append(@, s[p])]
      [] st.mode = "esc" /\ s[p] \in {QUOTE, BSLASH, "n", "r"} ->
            [st EXCEPT !.mode = "norm", !.acc = Append(@, Unescape(s[p]))]
      [] st.mode = "esc" -> [st EXCEPT !.mode = "fail"]
      [] OTHER -> st

RECURSIVE StrFold(_, _, _, _)
\* StrStep over s[lo..hi], left to right (halving keeps the evaluation shallow)
StrFold(s, st, lo, hi) ==
    IF st.mode \in {"done", "fail"} \/ lo > hi THEN st
    ELSE IF lo = hi THEN StrStep(s, st, lo)
    ELSE (CHOOSE res \in {
        (CHOOSE res \in {
            StrFold(s, half, mid + 1, hi)
            : half \in {StrFold(s, st, lo, mid)}} : TRUE)
        : mid \in {(lo + hi) \div 2}} : TRUE)

\* the string literal whose opening quote is at i - 1
PString(s, i) ==
    (CHOOSE res \in {
        IF st.mode = "done" THEN Ok(Str(st.acc), st.pos) ELSE Fail
        : st \in {StrFold(s, [mode |-> "norm", acc |-> <<>>, pos |-> 0], i, Len(s))}} : TRUE)

RECURSIVE PValue(_, _), PElems(_, _, _), PMembers(_, _, _)
\* the JSON value that starts at position i of s, after blanks
PValue(s, i) ==
    (CHOOSE res \in {
        IF j > Len(s) THEN Fail
        ELSE CASE s[j] = "[" ->
                    (CHOOSE res \in {
                        IF c <= Len(s) /\ s[c] = "]" THEN Ok(Arr(<<>>), c + 1)
                        ELSE PElems(s, j + 1, <<>>)
                        : c \in {SkipWs(s, j + 1)}} : TRUE)
               [] s[j] = "{" ->
                    (CHOOSE res \in {
                        IF c <= Len(s) /\ s[c] = "}" THEN Ok(Obj(<<>>), c + 1)
                        ELSE PMembers(s, j + 1, <<>>)
                        : c \in {SkipWs(s, j + 1)}} : TRUE)
               [] s[j] = QUOTE -> PString(s, j + 1)
               [] s[j] = "null" -> Ok(Null, j + 1)
               [] s[j] = "true" -> Ok(Bool(TRUE), j + 1)
               [] s[j] = "false" -> Ok(Bool(FALSE), j + 1)
               [] s[j] \in Digits -> Ok(Num(DigitVal(s[j])), j + 1)
               [] OTHER -> Fail
        : j \in {SkipWs(s, i)}} : TRUE)

\* the elements of an array from position i on, acc holding those already read
PElems(s, i, acc) ==
    (CHOOSE res \in {
        IF ~r.ok THEN Fail
        ELSE (CHOOSE res \in {
            IF c > Len(s) THEN Fail
            ELSE IF s[c] = "," THEN (CHOOSE res \in {
                PElems(s, c + 1, a)
                : a \in {Append(acc, r.val)}} : TRUE)
            ELSE IF s[c] = "]" THEN Ok(Arr(Append(acc, r.val)), c + 1)
            ELSE Fail
            : c \in {SkipWs(s, r.pos)}} : TRUE)
        : r \in {PValue(s, i)}} : TRUE)

\* the members of an object from position i on, acc holding those already read
PMembers(s, i, acc) ==
    (CHOOSE res \in {
        IF j > Len(s) \/ s[j] # QUOTE THEN Fail
        ELSE (CHOOSE res \in {
            IF ~key.ok THEN Fail
            ELSE (CHOOSE res \in {
                IF c > Len(s) \/ s[c] # ":" THEN Fail
                ELSE (CHOOSE res \in {
                    IF ~r.ok THEN Fail
                    ELSE (CHOOSE res \in {
                        (CHOOSE res \in {
                            IF d > Len(s) THEN Fail
                            ELSE IF s[d] = "," THEN PMembers(s, d + 1, a)
                            ELSE IF s[d] = "}" THEN Ok(Obj(a), d + 1)
                            ELSE Fail
                            : a \in {Append(acc, [key |-> key.val.s, val |-> r.val])}} : TRUE)
                        : d \in {SkipWs(s, r.pos)}} : TRUE)
                    : r \in {PValue(s, c + 1)}} : TRUE)
                : c \in {SkipWs(s, key.pos)}} : TRUE)
            : key \in {PString(s, j + 1)}} : TRUE)
        : j \in {SkipWs(s, i)}} : TRUE)

\* JSON.parse(text)
JSONParse(text) ==
    (CHOOSE res \in {
        (CHOOSE res \in {
            IF r.ok /\ SkipWs(s, r.pos) > Len(s) THEN r ELSE Fail
            : r \in {PValue(s, 1)}} : TRUE)
        : s \in {text}} : TRUE)

(***************************************************************************)
(* String methods and the regular expressions of the page                  *)
(***************************************************************************)
Min(S) == CHOOSE i \in S : \A j \in S : i <= j
Max(S) == CHOOSE i \in S : \A j \in S : i >= j

\* s.indexOf(tok) from position from on, 1-based; 0 stands for -1
IndexFrom(s, tok, from) ==
    (CHOOSE res \in {
        IF S = {} THEN 0 ELSE Min(S)
        : S \in {{i \in from..Len(s) : s[i] = tok}}} : TRUE)
IndexOf(s, tok) == IndexFrom(s, tok, 1)
LastIndexOf(s, tok) ==
    (CHOOSE res \in {
        IF S = {} THEN 0 ELSE Max(S)
        : S \in {{i \in 1..Len(s) : s[i] = tok}}} : TRUE)

\* s.substring(from - 1, to), 1-based and inclusive
Substring(s, from, to) == SubSeq(s, from, to)

RECURSIVE KeepRange(_, _, _, _)
\* s[lo..hi] without the positions in drop
KeepRange(s, drop, lo, hi) ==
    IF lo > hi THEN <<>>
    ELSE IF lo = hi THEN (IF lo \in drop THEN <<>> ELSE <<s[lo]>>)
    ELSE (CHOOSE res \in {
        KeepRange(s, drop, lo, mid) \o KeepRange(s, drop, mid + 1, hi)
        : mid \in {(lo + hi) \div 2}} : TRUE)

\* text.trim()
Trim(text) ==
    (CHOOSE res \in {
        (CHOOSE res \in {
            IF S = {} THEN <<>> ELSE SubSeq(s, Min(S), Max(S))
            : S \in {{i \in 1..Len(s) : s[i] \notin WS}}} : TRUE)
        : s \in {text}} : TRUE)

JsonTag == {"json", "JSON", "Json"}

\* text.replace(/```(?:json)?\s*/i, ''): the first fence of the text, wherever
\* it is, a json tag right after it and the blanks that follow
StripFirstFence(text) ==
    (CHOOSE res \in {
        (CHOOSE res \in {
            IF i = 0 THEN s
            ELSE (CHOOSE res \in {
                SubSeq(s, 1, i - 1) \o SubSeq(s, c, Len(s))
                : c \in {SkipWs(s, IF i + 1 <= Len(s) /\ s[i + 1] \in JsonTag
                                   THEN i + 2 ELSE i + 1)}} : TRUE)
            : i \in {IndexOf(s, FENCE)}} : TRUE)
        : s \in {text}} : TRUE)

\* the trailing fence left where it is
StripLastFenceKept(text) == text

\* text.replace(/\s*```$/i, ''): a fence ending the text and the blanks before it
StripLastFence(text) ==
    (CHOOSE res \in {
        IF Len(s) = 0 \/ s[Len(s)] # FENCE THEN s
        ELSE (CHOOSE res \in {
            IF S = {} THEN <<>> ELSE SubSeq(s, 1, Max(S))
            : S \in {{i \in 1..(Len(s) - 1) : s[i] \notin WS}}} : TRUE)
        : s \in {text}} : TRUE)

\* candidate.replace(/```(?:json)?\s*/i, '').replace(/\s*```$/i, '').trim()
Clean(candidate) == Trim(StripLastFence(StripFirstFence(candidate)))

\* cleaned.replace(/^\"|\"$/g, '')
Unquote(cleaned) ==
    (CHOOSE res \in {
        (CHOOSE res \in {
            SubSeq(s, a, IF Len(s) >= a /\ s[Len(s)] = QUOTE THEN Len(s) - 1 ELSE Len(s))
            : a \in {IF Len(s) >= 1 /\ s[1] = QUOTE THEN 2 ELSE 1}} : TRUE)
        : s \in {cleaned}} : TRUE)

\* text.replace(/\\x/g, '') for a one-letter word x: every backslash followed by x goes
RemoveEscape(text, x) ==
    (CHOOSE res \in {
        (CHOOSE res \in {
            IF M = {} THEN s
            ELSE (CHOOSE res \in {
                KeepRange(s, drop, 1, Len(s))
                : drop \in {M \cup {i + 1 : i \in M}}} : TRUE)
            : M \in {{i \in 1..(Len(s) - 1) : s[i] = BSLASH /\ s[i + 1] = x}}} : TRUE)
        : s \in {text}} : TRUE)

\* text.replace(/\\"/g, '"')
UnescapeQuotes(text) ==
    (CHOOSE res \in {
        (CHOOSE res \in {
            IF M = {} THEN s ELSE KeepRange(s, M, 1, Len(s))
            : M \in {{i \in 1..(Len(s) - 1) : s[i] = BSLASH /\ s[i + 1] = QUOTE}}} : TRUE)
        : s \in {text}} : TRUE)

\* cleaned.replace(/\\n/g, '').replace(/\\r/g, '').replace(/\\"/g, '"')
UnescapeText(cleaned) == UnescapeQuotes(RemoveEscape(RemoveEscape(cleaned, "n"), "r"))

RECURSIVE MatchObjects(_, _)
\* s.match(/{[\s\S]*?}/g) || [], scanning from position from
MatchObjects(s, from) ==
    (CHOOSE res \in {
        IF a = 0 THEN <<>>
        ELSE (CHOOSE res \in {
            IF b = 0 THEN <<>>
            ELSE <<SubSeq(s, a, b)>> \o MatchObjects(s, b + 1)
            : b \in {IndexFrom(s, "}", a + 1)}} : TRUE)
        : a \in {IndexFrom(s, "{", from)}} : TRUE)

\* tok.toLowerCase()
LowerTok(tok) ==
    CASE tok \in {"High", "HIGH"} -> "high"
      [] tok \in {"Safe", "SAFE"} -> "safe"
      [] tok = "Moderate" -> "moderate"
      [] tok = "Object" -> "object"
      [] tok = "Unspecified" -> "unspecified"
      [] tok \in JsonTag -> "json"
      [] OTHER -> tok
\* text.toLowerCase()
ToLowerCase(text) ==
    (CHOOSE res \in {[i \in 1..Len(s) |-> LowerTok(s[i])] : s \in {text}} : TRUE)

RECURSIVE ToStr(_), JoinElems(_, _)
\* v.toString() of a non-nullish JSON value
ToStr(v) ==
    CASE v.k = "str" -> v.s
      [] v.k = "num" -> <<DigitTok[v.n + 1]>>
      [] v.k = "bool" -> <<IF v.n = 1 THEN "true" ELSE "false">>
      [] v.k = "arr" -> JoinElems(v.a, 1)
      [] v.k = "obj" -> <<"[", "object", SP, "Object", "]">>
      [] OTHER -> <<>>
JoinElems(elems, i) ==
    IF i > Len(elems) THEN <<>>
    ELSE (IF i > 1 THEN <<",">> ELSE <<>>) \o ToStr(elems[i]) \o JoinElems(elems, i + 1)

(***************************************************************************)
(* parseNestedClauses                                                      *)
(***************************************************************************)
ClauseRecord(id, text, type, risk, implications) ==
    [id |-> id, text |-> text, type |-> type, risk |-> risk,
     implications |-> implications]

\* the risk not lower-cased
RiskOfAsGiven(v) == Str(ToStr(Coalesce(v, Word("moderate"))))

\* (v ?? 'moderate').toString().toLowerCase()
RiskOf(v) == Str(ToLowerCase(ToStr(Coalesce(v, Word("moderate")))))

\* the record normalize builds for one item of a parsed array
NormalizeItem(item, idx) ==
    ClauseRecord(
        Num(idx),
        Coalesce(Coalesce(Get(item, "clause_text"), Get(item, "text")), Str(<<>>)),
        Coalesce(Coalesce(Coalesce(Get(item, "clause_type_category"),
                                   Get(item, "clause_type")),
                          Get(item, "type")), Word("Unspecified")),
        RiskOf(Coalesce(Get(item, "risk_level"), Get(item, "risk"))),
        Coalesce(Coalesce(Get(item, "brief_explanation_of_implications"),
                          Get(item, "implications")), Null))

\* normalize(arr): reading a property of a null item is a TypeError
normalize(arr) ==
    (CHOOSE res \in {
        IF \E i \in 1..Len(items) : Nullish(items[i])
        THEN [threw |-> TRUE, recs |-> <<>>]
        ELSE [threw |-> FALSE,
              recs |-> [i \in 1..Len(items) |-> NormalizeItem(items[i], i - 1)]]
        : items \in {arr}} : TRUE)

\* a tier that did not return
Miss == [hit |-> FALSE, recs |-> <<>>]
\* try { const parsed = JSON.parse(text);
\*       if (Array.isArray(parsed)) return normalize(parsed); } catch (err) {}
\* hit says that the return statement was reached and returned
TryArray(text) ==
    (CHOOSE res \in {
        IF ~parsed.ok \/ parsed.val.k # "arr" THEN Miss
        ELSE (CHOOSE res \in {
            IF nz.threw THEN Miss ELSE [hit |-> TRUE, recs |-> nz.recs]
            : nz \in {normalize(parsed.val.a)}} : TRUE)
        : parsed \in {JSONParse(text)}} : TRUE)

\* the substring ending before the last ]
TryBracketShort(text) ==
    (CHOOSE res \in {
        (CHOOSE res \in {
            IF at[1] # 0 /\ at[2] # 0 /\ at[2] > at[1]
            THEN TryArray(Substring(s, at[1], at[2] - 1))
            ELSE Miss
            : at \in {<<IndexOf(s, "["), LastIndexOf(s, "]")>>}} : TRUE)
        : s \in {text}} : TRUE)

\* Fallback 2: the substring from the first [ to the last ]
TryBracket(text) ==
    (CHOOSE res \in {
        (CHOOSE res \in {
            IF at[1] # 0 /\ at[2] # 0 /\ at[2] > at[1]
            THEN TryArray(Substring(s, at[1], at[2]))
            ELSE Miss
            : at \in {<<IndexOf(s, "["), LastIndexOf(s, "]")>>}} : TRUE)
        : s \in {text}} : TRUE)

\* the objects of the {...} spans of text that JSON.parse accepts
extractObjectsFromText(text) ==
    (CHOOSE res \in {
        (CHOOSE res \in {
            (CHOOSE res \in {
                (CHOOSE res \in {
                    [i \in 1..Len(good) |-> good[i].val]
                    : good \in {SelectSeq(ps, LAMBDA p : p.ok)}} : TRUE)
                : ps \in {[i \in 1..Len(objMatches) |-> JSONParse(objMatches[i])]}} : TRUE)
            : objMatches \in {MatchObjects(s, 1)}} : TRUE)
        : s \in {text}} : TRUE)

\* Fallback 3: if (objs.length > 0) return normalize(objs)
TryObjects(text) ==
    (CHOOSE res \in {
        IF Len(objs) = 0 THEN Miss
        ELSE (CHOOSE res \in {
            IF nz.threw THEN Miss ELSE [hit |-> TRUE, recs |-> nz.recs]
            : nz \in {normalize(objs)}} : TRUE)
        : objs \in {extractObjectsFromText(text)}} : TRUE)

\* the record the last resort builds for one entry of rawData.clauses
LastResortItem(it) ==
    ClauseRecord(
        Coalesce(Get(it, "id"), Null),
        Coalesce(Coalesce(Get(it, "text"), Get(it, "clause_text")), Str(<<>>)),
        Coalesce(Coalesce(Coalesce(Get(it, "type"), Get(it, "clause_type")),
                          Get(it, "category")), Word("Unspecified")),
        RiskOf(Coalesce(Get(it, "risk"), Get(it, "risk_level"))),
        Coalesce(Get(it, "implications"), Null))

\* rawData?.clauses?.[0]?.text ?? rawData?.clauses?.[0]?.body ?? null
BlockOf(rawData) ==
    LET first == OptFirst(OptGet(rawData, "clauses"))
    IN  Coalesce(Coalesce(OptGet(first, "text"), OptGet(first, "body")), Null)

Returned(tier, recs) == [threw |-> FALSE, tier |-> tier, recs |-> recs]
Thrown == [threw |-> TRUE, tier |-> "last-resort", recs |-> <<>>]

\* the tail of parseNestedClauses: the scan of JSON.stringify(rawData) and the
\* last resort on rawData.clauses
PayloadFallbacks(rawData) ==
    (CHOOSE res \in {
        IF full.hit THEN Returned("payload-scan", full.recs)
        ELSE (CHOOSE res \in {
            IF clauses.k # "arr" THEN Returned("nothing", <<>>)
            ELSE IF \E i \in 1..Len(clauses.a) : Nullish(clauses.a[i]) THEN Thrown
            ELSE Returned("last-resort",
                          [i \in 1..Len(clauses.a) |-> LastResortItem(clauses.a[i])])
            : clauses \in {OptGet(rawData, "clauses")}} : TRUE)
        : full \in {TryBracket(Stringify(rawData))}} : TRUE)

\* the five tiers on the cleaned candidate, then the payload fallbacks
TextTiers(rawData, cleaned) ==
    (CHOOSE res \in {
        IF strict.hit THEN Returned("strict", strict.recs)
        ELSE (CHOOSE res \in {
            IF unquoted.hit THEN Returned("unquote", unquoted.recs)
            ELSE (CHOOSE res \in {
                IF unescaped.hit THEN Returned("unescape", unescaped.recs)
                ELSE (CHOOSE res \in {
                    IF bracket.hit THEN Returned("bracket", bracket.recs)
                    ELSE (CHOOSE res \in {
                        IF objects.hit THEN Returned("objects", objects.recs)
                        ELSE PayloadFallbacks(rawData)
                        : objects \in {TryObjects(cleaned)}} : TRUE)
                    : bracket \in {TryBracket(cleaned)}} : TRUE)
                : unescaped \in {TryArray(UnescapeText(cleaned))}} : TRUE)
            : unquoted \in {TryArray(Unquote(cleaned))}} : TRUE)
        : strict \in {TryArray(cleaned)}} : TRUE)

\* parseNestedClauses(rawData): tier names the return statement that returned
parseNestedClauses(rawData) ==
    IF ~Truthy(rawData) THEN Returned("no-data", <<>>)
    ELSE (CHOOSE res \in {
        IF block.k # "str" \/ block.s = <<>> THEN PayloadFallbacks(rawData)
        ELSE (CHOOSE res \in {TextTiers(rawData, cleaned) : cleaned \in {Clean(block.s)}} : TRUE)
        : block \in {BlockOf(rawData)}} : TRUE)

(***************************************************************************)
(* The render of DocumentAnalysis after parseNestedClauses                 *)
(***************************************************************************)
\* extractedClausesRaw?.clauses?.[0]?.text ?? null
InnerBlockRaw(rawData) ==
    Coalesce(OptGet(OptFirst(OptGet(rawData, "clauses")), "text"), Null)

\* _innerBlockRaw ? _innerBlockRaw.replace(...)...trim() : null; calling
\* replace on a truthy value that is no string is a TypeError
CleanedInnerBlock(rawData) ==
    (CHOOSE res \in {
        IF ~Truthy(raw) THEN [threw |-> FALSE, val |-> Null]
        ELSE IF raw.k # "str" THEN [threw |-> TRUE, val |-> Null]
        ELSE [threw |-> FALSE, val |-> Str(Clean(raw.s))]
        : raw \in {InnerBlockRaw(rawData)}} : TRUE)

\* objectMatches.map(...): the same mapping as normalize
ObjectClauses(cleanedInnerBlock) ==
    (CHOOSE res \in {
        [i \in 1..Len(objectMatches) |-> NormalizeItem(objectMatches[i], i - 1)]
        : objectMatches \in {IF Truthy(cleanedInnerBlock)
                             THEN extractObjectsFromText(cleanedInnerBlock.s)
                             ELSE <<>>}} : TRUE)

\* a mutant of ParseMethod: the inner block is looked at before the objects
ParseMethodBlockFirst(parsed, objs, cleanedInnerBlock) ==
    IF Len(parsed) > 0 THEN "array"
    ELSE IF Truthy(cleanedInnerBlock) THEN "raw-text"
    ELSE IF Len(objs) > 0 THEN "objects"
    ELSE "none"

ParseMethod(parsed, objs, cleanedInnerBlock) ==
    IF Len(parsed) > 0 THEN "array"
    ELSE IF Len(objs) > 0 THEN "objects"
    ELSE IF Truthy(cleanedInnerBlock) THEN "raw-text"
    ELSE "none"

EffectiveClauses(parsed, objs) == IF Len(parsed) > 0 THEN parsed ELSE objs

(***************************************************************************)
(* generateSummary                                                         *)
(***************************************************************************)
SummaryTake == 5
MaxCategories == 4
MaxImplications == 5

Intro == <<"This", SP, "document", SP, "contains", SP, "clauses", SP, "related", SP,
           "to", SP>>
GeneralTerms == <<"general", SP, "contractual", SP, "terms">>
RisksIntro == <<"Risks", SP, "identified", ":", SP>>
ImplicationsIntro == <<"Notable", SP, "implications", SP, "include", SP>>
NoSummary == <<"No", SP, "summary", SP, "available", ".">>

\* seq.slice(0, n)
Slice(seq, n) == SubSeq(seq, 1, IF Len(seq) < n THEN Len(seq) ELSE n)

\* Array.from(new Set(seq)): the first occurrence of every value, in order
Distinct(seq) ==
    KeepRange(seq, {i \in 1..Len(seq) : \E j \in 1..(i - 1) : seq[j] = seq[i]},
              1, Len(seq))

\* strs.filter(Boolean) for an array of strings
NonEmpty(strs) == KeepRange(strs, {i \in 1..Len(strs) : strs[i] = <<>>}, 1, Len(strs))

\* vals.filter(Boolean) for an array of JSON values
TruthyOnes(vals) ==
    KeepRange(vals, {i \in 1..Len(vals) : ~Truthy(vals[i])}, 1, Len(vals))

RECURSIVE Join(_, _, _)
\* strs.join(sep) from element i on
Join(strs, sep, i) ==
    IF i > Len(strs) THEN <<>>
    ELSE (IF i > 1 THEN sep ELSE <<>>) \o strs[i] \o Join(strs, sep, i + 1)

\* text.replace(/\s+/g, ' ')
CollapseWs(text) ==
    (CHOOSE res \in {
        (CHOOSE res \in {
            [i \in 1..Len(kept) |-> IF kept[i] \in WS THEN SP ELSE kept[i]]
            : kept \in {KeepRange(s, {i \in 2..Len(s) : s[i] \in WS /\ s[i - 1] \in WS},
                                  1, Len(s))}} : TRUE)
        : s \in {text}} : TRUE)

\* take.map(c => (c.type || '').trim()).filter(Boolean), then the distinct ones
Categories(take) ==
    Distinct(NonEmpty([i \in 1..Len(take) |->
        IF Truthy(take[i].type) THEN Trim(take[i].type.s) ELSE <<>>]))

\* take.map(c => c.implications).filter(Boolean).slice(0, 5), as join converts them
Implications(take) ==
    (CHOOSE res \in {
        [i \in 1..Len(kept) |-> ToStr(kept[i])]
        : kept \in {Slice(TruthyOnes([i \in 1..Len(take) |-> take[i].implications]),
                          MaxImplications)}} : TRUE)

\* take.map(c => (c.risk || '').toString().toLowerCase()).filter(Boolean), distinct
Risks(take) ==
    Distinct(NonEmpty([i \in 1..Len(take) |->
        IF Truthy(take[i].risk) THEN ToLowerCase(ToStr(take[i].risk)) ELSE <<>>]))

\* the sentence built from the first records
Synthesize(take) ==
    (CHOOSE res \in {
        Trim(CollapseWs(
            Intro
            \o (IF Len(parts[1]) > 0
                THEN Join(Slice(parts[1], MaxCategories), <<",", SP>>, 1)
                ELSE GeneralTerms)
            \o <<".", SP>>
            \o (IF Len(parts[2]) > 0
                THEN ImplicationsIntro \o Join(parts[2], <<";", SP>>, 1) \o <<".">>
                ELSE <<>>)
            \o <<SP>>
            \o (IF Len(parts[3]) > 0
                THEN RisksIntro \o Join(parts[3], <<",", SP>>, 1) \o <<".">>
                ELSE <<>>)))
        : parts \in {<<Categories(take), Implications(take), Risks(take)>>}} : TRUE)

\* the summary of the payload returned trimmed
generateSummaryTrimmed(rawData, clauses) ==
    (CHOOSE res \in {
        IF Truthy(backendSummary) /\ backendSummary.k = "str"
           /\ Trim(backendSummary.s) # <<>>
        THEN [threw |-> FALSE, val |-> Trim(backendSummary.s)]
        ELSE IF Len(clauses) = 0 THEN [threw |-> FALSE, val |-> NoSummary]
        ELSE (CHOOSE res \in {
            IF \E i \in 1..Len(take) : Truthy(take[i].type) /\ take[i].type.k # "str"
            THEN [threw |-> TRUE, val |-> <<>>]
            ELSE [threw |-> FALSE, val |-> Synthesize(take)]
            : take \in {Slice(clauses, SummaryTake)}} : TRUE)
        : backendSummary \in {OptGet(rawData, "summary")}} : TRUE)

\* the summary synthesized from all the records
generateSummaryAll(rawData, clauses) ==
    (CHOOSE res \in {
        IF Truthy(backendSummary) /\ backendSummary.k = "str"
           /\ Trim(backendSummary.s) # <<>>
        THEN [threw |-> FALSE, val |-> backendSummary.s]
        ELSE IF Len(clauses) = 0 THEN [threw |-> FALSE, val |-> NoSummary]
        ELSE IF \E i \in 1..Len(clauses) :
                    Truthy(clauses[i].type) /\ clauses[i].type.k # "str"
        THEN [threw |-> TRUE, val |-> <<>>]
        ELSE [threw |-> FALSE, val |-> Synthesize(clauses)]
        : backendSummary \in {OptGet(rawData, "summary")}} : TRUE)

\* generateSummary(rawData, parsedClauses): calling trim on a type that is truthy
\* and not a string is a TypeError
generateSummary(rawData, clauses) ==
    (CHOOSE res \in {
        IF Truthy(backendSummary) /\ backendSummary.k = "str"
           /\ Trim(backendSummary.s) # <<>>
        THEN [threw |-> FALSE, val |-> backendSummary.s]
        ELSE IF Len(clauses) = 0 THEN [threw |-> FALSE, val |-> NoSummary]
        ELSE (CHOOSE res \in {
            IF \E i \in 1..Len(take) : Truthy(take[i].type) /\ take[i].type.k # "str"
            THEN [threw |-> TRUE, val |-> <<>>]
            ELSE [threw |-> FALSE, val |-> Synthesize(take)]
            : take \in {Slice(clauses, SummaryTake)}} : TRUE)
        : backendSummary \in {OptGet(rawData, "summary")}} : TRUE)

\* parsed.filter(c => (c.risk ?? '') === level).length
RiskCount(parsed, level) ==
    Cardinality({i \in 1..Len(parsed) : Coalesce(parsed[i].risk, Str(<<>>)) = Word(level)})

(***************************************************************************)
(* Payloads the extract-clauses call can deliver                           *)
(***************************************************************************)
MaxObjs == 3
MaxLen == 3
MaxLoads == 2

\* a clause object with all canonical fields, one with the alternative names
\* and an id of its own
Canon == Obj(<<KV("clause_text", Word("a")), KV("clause_type_category", Word("Payment")),
               KV("risk_level", Word("High")),
               KV("brief_explanation_of_implications", Word("i"))>>)
Alt == Obj(<<KV("id", Num(7)), KV("text", Word("b")), KV("type", Word("Term")),
             KV("risk", Word("safe")), KV("implications", Word("j"))>>)
\* every name of every attribute, the lowest precedence first
Both == Obj(<<KV("text", Word("b")), KV("clause_text", Word("a")),
              KV("type", Word("Term")), KV("clause_type", Word("Liability")),
              KV("clause_type_category", Word("Payment")),
              KV("risk", Word("safe")), KV("risk_level", Word("High")),
              KV("implications", Word("j")),
              KV("brief_explanation_of_implications", Word("i"))>>)
NullFirst == Obj(<<KV("clause_text", Null), KV("text", Word("b")),
                   KV("clause_type", Word("Liability")), KV("type", Word("Term")),
                   KV("risk_level", Null), KV("risk", Word("HIGH"))>>)
NonString == Obj(<<KV("text", Num(5)), KV("type", Bool(TRUE)), KV("risk", Obj(<<>>)),
                   KV("implications", Num(0))>>)
Category == Obj(<<KV("clause_text", Word("a")), KV("category", Word("Other")),
                  KV("risk_level", Word("Moderate"))>>)
\* empty strings where the other objects have words
EmptyType == Obj(<<KV("clause_text", Word("e")), KV("type", Str(<<>>)),
                   KV("risk", Str(<<>>)), KV("implications", Str(<<>>))>>)
\* blanks around and inside the values
Padded == Obj(<<KV("clause_text", Word("g")), KV("type", Str(<<SP, "Term">>)),
                KV("risk", Word("safe")),
                KV("implications", Str(<<"x", LF, SP, "y">>))>>)
Sixth == Obj(<<KV("text", Word("f")), KV("type", Word("Late")),
               KV("risk", Word("critical")), KV("implications", Word("k"))>>)

\* the elements batches are made of, and the objects tried one at a time
BatchElems == {Canon, Alt, Null}
SingleElems == {Both, NullFirst, NonString, Category, Obj(<<>>), Word("s"), Num(1)}
\* clause objects among elements that are no objects
MixedBatches == {<<Canon, Num(1)>>, <<Word("s"), Alt>>, <<Num(1), Canon, Null>>,
                 <<Bool(TRUE), Canon, Word("s"), Alt>>}

\* batches of five records and more, for the summary
LongBatches == {<<EmptyType, Canon, Alt, NullFirst, Category>>,
                <<EmptyType, Canon, Alt, NullFirst, Category, Sixth>>,
                <<Canon, Alt, Canon, Alt, Canon>>,
                <<Canon, Alt, Canon, Alt, Canon, Sixth>>,
                <<Sixth, Padded>>, <<Padded>>, <<EmptyType>>}

SeqsUpTo(S, n) == UNION {[1..m -> S] : m \in 0..n}
Batches == SeqsUpTo(BatchElems, MaxObjs) \cup {<<e>> : e \in SingleElems}
           \cup MixedBatches \cup LongBatches

Malformed == <<"{", QUOTE, "clause_text", QUOTE, SP, QUOTE, "c", QUOTE, "}">>
Prose == <<"No", SP, "clauses", SP, "found", ".">>

RECURSIVE Concat(_, _)
\* the elements of batch serialized one after the other, a blank in between
Concat(batch, i) ==
    IF i > Len(batch) THEN <<>>
    ELSE Stringify(batch[i]) \o <<SP>> \o Concat(batch, i + 1)

Bare(batch) == Stringify(Arr(batch))
Fenced(tag, sep, text) == <<FENCE>> \o tag \o sep \o text \o sep \o <<FENCE>>
FencedForms(text) ==
    {Fenced(<<"json">>, <<LF>>, text), Fenced(<<>>, <<LF>>, text),
     Fenced(<<"json">>, <<>>, text)}
DoubleEncoded(batch) == Stringify(Str(Bare(batch)))
LeadingProse(text) == <<"Here", SP, "are", SP, "the", SP, "clauses", ":", LF>> \o text
TrailingProse(text) == text \o <<LF, "Done", ".">>
InProse(text) == LeadingProse(TrailingProse(text))
\* the array with a literal backslash-n after every bracket and comma of the top level
Escaped(batch) == <<"[", BSLASH, "n">> \o Trim(Concat(batch, 1)) \o <<BSLASH, "n", "]">>
Objects(batch) == Concat(batch, 1) \o Malformed

BatchTexts(batch) ==
    {Bare(batch), DoubleEncoded(batch), InProse(Bare(batch)), Objects(batch),
     LeadingProse(Bare(batch)), TrailingProse(Bare(batch))}
    \cup FencedForms(Bare(batch))

Alphabet == {"[", "]", "{", "}", QUOTE, FENCE, SP, "json"}
WordToks == {"json"}
WellTokenized(s) ==
    \A i \in 1..(Len(s) - 1) : ~(s[i] \in WordToks /\ s[i + 1] \in WordToks)
ShortTexts == {s \in SeqsUpTo(Alphabet, MaxLen) : WellTokenized(s)}

SpecialTexts ==
    {Prose, <<"[", "]">>, <<"[", "]", SP>> \o Stringify(Canon), <<QUOTE, "[", "]", QUOTE>>,
     <<"[", BSLASH, "n", "]">>, Escaped(<<Canon>>), Escaped(<<Canon, Alt>>),
     <<"[", "]", SP>> \o Prose, Stringify(Canon) \o Stringify(Alt)}

Texts == UNION {BatchTexts(b) : b \in Batches} \cup ShortTexts \cup SpecialTexts

Entry(field, v) == Obj(<<KV(field, v)>>)
TextPayload(text) == Obj(<<KV("clauses", Arr(<<Entry("text", Str(text))>>))>>)
BodyPayload(text) == Obj(<<KV("clauses", Arr(<<Entry("body", Str(text))>>))>>)
\* a second array after clauses
WithSources(payload) == Obj(payload.o \o <<KV("sources", Arr(<<>>))>>)
DirectPayload(batch) == Obj(<<KV("clauses", Arr(batch))>>)

OddValues == {Null, Num(0), Num(5), Bool(TRUE), Bool(FALSE), Str(<<>>), Obj(<<>>),
              Arr(<<>>), Arr(<<Canon>>), Str(Prose), Str(<<"[", "1", "]">>)}
OddPayloads ==
    OddValues
    \cup {Obj(<<KV("summary", Str(Prose))>>)}
    \cup {Obj(<<KV("clauses", v)>>) : v \in OddValues}
    \cup {Obj(<<KV("clauses", Obj(<<KV("0", Entry("text", Str(s)))>>))>>) :
            s \in {Prose, <<FENCE>>, Bare(<<Canon>>)}}
    \cup {Obj(<<KV("clauses", Arr(<<Entry("text", v)>>))>>) : v \in OddValues}
    \cup {Obj(<<KV("clauses", Arr(<<Entry("text", Str(Prose)), Null>>))>>)}

\* the payload with a summary field
WithSummary(payload, v) == Obj(payload.o \o <<KV("summary", v)>>)
SummaryValues == {Str(Prose), Str(<<SP>>), Str(<<LF, SP>>), Str(<<SP, "Ok", SP>>),
                  Str(<<>>), Null, Num(5), Bool(TRUE)}
SummaryPayloads ==
    {WithSummary(p, v) :
        p \in {Obj(<<>>), TextPayload(Prose), TextPayload(Bare(<<>>)),
               TextPayload(Bare(<<Canon>>)), TextPayload(Bare(<<Canon, Alt>>)),
               TextPayload(Bare(<<NonString>>))},
        v \in SummaryValues}

Payloads ==
    {TextPayload(s) : s \in Texts}
    \cup SummaryPayloads
    \cup {BodyPayload(s) : s \in SpecialTexts \cup {Bare(<<e>>) : e \in BatchElems}}
    \cup {WithSources(TextPayload(s)) : s \in SpecialTexts}
    \cup {DirectPayload(b) : b \in Batches}
    \cup {WithSources(DirectPayload(b)) : b \in Batches}
    \cup OddPayloads

(***************************************************************************)
(* The page: a payload arrives, the component renders                      *)
(***************************************************************************)
\* the payloads tried as the response of a later extract call on the same page
ReloadPayloads ==
    OddPayloads \cup {TextPayload(s) : s \in SpecialTexts}
    \cup {DirectPayload(<<e>>) : e \in BatchElems}

\* loads counts the responses the page has received
\* finalSummary is the text of the summary card, cards the clauses given to
\* ClauseCard, riskCounts the numbers of the three badges
VARIABLES extractedClausesRaw, pc, parsedClauses, tier, cleanedInnerBlock,
          objectClauses, effectiveClauses, parseMethod, loads,
          finalSummary, cards, riskCounts

documentVars == <<extractedClausesRaw, pc, parsedClauses, tier, cleanedInnerBlock,
                  objectClauses, effectiveClauses, parseMethod, loads,
                  finalSummary, cards, riskCounts>>

\* apiClient (services/apiClient.ts), one request at a time.
\* apiPc is where the request is: "idle" (not made), "sent" (dispatched, no
\* answer yet), "waiting" (the response interceptor awaits its setTimeout),
\* "resolved", "rejected".  retryCount is config['retry-count'] (-1: not set),
\* delay the argument of the pending setTimeout, waited the time since it was
\* called, settled the value the promise settled with.  history lists the
\* answers of the attempts, waits the time each retry was issued after the
\* failure before it, requests counts the requests made.
VARIABLES apiPc, retryCount, delay, waited, settled, history, waits, requests

apiVars == <<apiPc, retryCount, delay, waited, settled, history, waits, requests>>

\* SessionProvider (contexts/SessionContext) under App, with the redirect of
\* DocumentAnalysis.  storage is sessionStorage's item 'rag-session' (Null:
\* none); sessionId, filename, chunkCount are the provider's state;
\* isSessionActive is its value in the latest render, the one the effects and
\* handlers of that render have captured; stale says that the state has
\* changed since that render; effects are the effects of the latest commit
\* that have not run yet; route is the router's location; reloads counts the
\* page loads; lastCall is the latest call of setSession or clearSession.
VARIABLES storage, sessionId, filename, chunkCount, isSessionActive, stale,
          effects, route, reloads, lastCall

sessionVars == <<storage, sessionId, filename, chunkCount, isSessionActive, stale,
                 effects, route, reloads, lastCall>>

\* VoiceAssistantTab.  isVoiceActive, recording and loading are its state;
\* shown holds the values of isVoiceActive and recording in the latest
\* render, the ones toggleRecording reads; mediaRecorderRef is the ref (0:
\* null); recorders[r] is the state of the r-th MediaRecorder created ("none"
\* before it exists) and tracks[r] that of the tracks of its stream;
\* pendingMedia counts the getUserMedia calls not answered yet; stopQueue
\* holds the recorders whose stop event is to be dispatched, uploads those
\* whose recording is being uploaded.
VARIABLES isVoiceActive, recording, loading, shown, mediaRecorderRef, recorders,
          tracks, pendingMedia, stopQueue, uploads

voiceVars == <<isVoiceActive, recording, loading, shown, mediaRecorderRef, recorders,
               tracks, pendingMedia, stopQueue, uploads>>

\* The News page.  articles, newsLoading, newsError, selectedCategory and
\* searchQuery are its state (loading and error in the source); effectDue
\* says that the effect on selectedCategory has not run yet; fetches lists the
\* calls of fetchNews in the order they were made: the topic, the stage
\* ("backend", "fallback", "done") and, when done, the articles it set.
VARIABLES articles, newsLoading, newsError, selectedCategory, searchQuery,
          effectDue, fetches

newsVars == <<articles, newsLoading, newsError, selectedCategory, searchQuery,
              effectDue, fetches>>

vars == <<documentVars, apiVars, sessionVars, voiceVars, newsVars>>

exceptDocument == <<apiVars, sessionVars, voiceVars, newsVars>>
exceptApi == <<documentVars, sessionVars, voiceVars, newsVars>>
exceptSession == <<documentVars, apiVars, voiceVars, newsVars>>
exceptVoice == <<documentVars, apiVars, sessionVars, newsVars>>
exceptNews == <<documentVars, apiVars, sessionVars, voiceVars>>

NoCounts == [safe |-> 0, moderate |-> 0, high |-> 0]

\* the locals of a render that has not computed them yet
Fresh ==
    /\ parsedClauses' = <<>>
    /\ tier' = "unset"
    /\ cleanedInnerBlock' = Null
    /\ objectClauses' = <<>>
    /\ effectiveClauses' = <<>>
    /\ parseMethod' = "unset"
    /\ finalSummary' = <<>>
    /\ cards' = <<>>
    /\ riskCounts' = NoCounts

NotSettled == [name |-> "none", message |-> "", status |-> 0, detail |-> ""]

\* no request has been made
InitApi ==
    /\ apiPc = "idle"
    /\ retryCount = -1
    /\ delay = 0
    /\ waited = 0
    /\ settled = NotSettled
    /\ history = <<>>
    /\ waits = <<>>
    /\ requests = 0

NoCall == [op |-> "none", sessionId |-> Null, filename |-> Null, chunkCount |-> Null]

\* the application is loaded on the upload page with an empty sessionStorage:
\* the first render is committed and the provider's mount effect is pending
InitSession ==
    /\ storage = Null
    /\ sessionId = Null
    /\ filename = Null
    /\ chunkCount = Null
    /\ isSessionActive = FALSE
    /\ stale = FALSE
    /\ effects = {"load"}
    /\ route = "/upload"
    /\ reloads = 0
    /\ lastCall = NoCall

MaxRecorders == 2
Recorders == 1..MaxRecorders

\* the tab is mounted: nothing is recorded
InitVoice ==
    /\ isVoiceActive = FALSE
    /\ recording = FALSE
    /\ loading = FALSE
    /\ shown = [isVoiceActive |-> FALSE, recording |-> FALSE]
    /\ mediaRecorderRef = 0
    /\ recorders = [r \in Recorders |-> "none"]
    /\ tracks = [r \in Recorders |-> "none"]
    /\ pendingMedia = 0
    /\ stopQueue = {}
    /\ uploads = {}

\* the page is mounted; the effect of the first render is due
InitNews ==
    /\ articles = <<>>
    /\ newsLoading = FALSE
    /\ newsError = ""
    /\ selectedCategory = "Technology"
    /\ searchQuery = ""
    /\ effectDue = TRUE
    /\ fetches = <<>>

\* useState<any>(null) and the first render
Init ==
    /\ InitApi
    /\ InitSession
    /\ InitVoice
    /\ InitNews
    /\ extractedClausesRaw = Null
    /\ pc = "parse"
    /\ parsedClauses = <<>>
    /\ tier = "unset"
    /\ cleanedInnerBlock = Null
    /\ objectClauses = <<>>
    /\ effectiveClauses = <<>>
    /\ parseMethod = "unset"
    /\ loads = 0
    /\ finalSummary = <<>>
    /\ cards = <<>>
    /\ riskCounts = NoCounts

\* onSuccess: (data) => setExtractedClausesRaw(data), which renders again
ExtractSuccess(data) ==
    /\ pc = "done"
    /\ loads < MaxLoads
    /\ loads' = loads + 1
    /\ extractedClausesRaw' = data
    /\ pc' = "parse"
    /\ Fresh
    /\ UNCHANGED exceptDocument

\* const parsedClauses = parseNestedClauses(extractedClausesRaw)
RenderParse ==
    /\ pc = "parse"
    /\ \E r \in {parseNestedClauses(extractedClausesRaw)} :
           /\ pc' = IF r.threw THEN "crashed" ELSE "inner"
           /\ parsedClauses' = r.recs
           /\ tier' = r.tier
    /\ UNCHANGED <<extractedClausesRaw, cleanedInnerBlock, objectClauses,
                   effectiveClauses, parseMethod, loads, finalSummary, cards,
                   riskCounts, exceptDocument>>

\* _innerBlockRaw, cleanedInnerBlock, objectMatches, objectClauses
RenderInnerBlock ==
    /\ pc = "inner"
    /\ \E c \in {CleanedInnerBlock(extractedClausesRaw)} :
           /\ pc' = IF c.threw THEN "crashed" ELSE "method"
           /\ cleanedInnerBlock' = c.val
           /\ objectClauses' = IF c.threw THEN <<>> ELSE ObjectClauses(c.val)
    /\ UNCHANGED <<extractedClausesRaw, parsedClauses, tier, effectiveClauses,
                   parseMethod, loads, finalSummary, cards, riskCounts,
                   exceptDocument>>

\* effectiveClauses and parseMethod
RenderMethod ==
    /\ pc = "method"
    /\ effectiveClauses' = EffectiveClauses(parsedClauses, objectClauses)
    /\ parseMethod' = ParseMethod(parsedClauses, objectClauses, cleanedInnerBlock)
    /\ pc' = "summary"
    /\ UNCHANGED <<extractedClausesRaw, parsedClauses, tier, cleanedInnerBlock,
                   objectClauses, loads, finalSummary, cards, riskCounts,
                   exceptDocument>>

\* const finalSummary = generateSummary(extractedClausesRaw, effectiveClauses)
RenderSummary ==
    /\ pc = "summary"
    /\ \E r \in {generateSummary(extractedClausesRaw, effectiveClauses)} :
           /\ pc' = IF r.threw THEN "summary-crashed" ELSE "view"
           /\ finalSummary' = r.val
    /\ UNCHANGED <<extractedClausesRaw, parsedClauses, tier, cleanedInnerBlock,
                   objectClauses, effectiveClauses, parseMethod, loads, cards,
                   riskCounts, exceptDocument>>

\* the clauses tab once the call is no longer pending: the three badges and
\* parsed.map((c, i) => <ClauseCard key={i} clause={c} />)
RenderView ==
    /\ pc = "view"
    /\ riskCounts' = [safe |-> RiskCount(parsedClauses, "safe"),
                      moderate |-> RiskCount(parsedClauses, "moderate"),
                      high |-> RiskCount(parsedClauses, "high")]
    /\ cards' = IF Len(parsedClauses) = 0 THEN <<>> ELSE parsedClauses
    /\ pc' = "done"
    /\ UNCHANGED <<extractedClausesRaw, parsedClauses, tier, cleanedInnerBlock,
                   objectClauses, effectiveClauses, parseMethod, loads, finalSummary,
                   exceptDocument>>

Next ==
    \/ \E data \in (IF loads = 0 THEN Payloads ELSE ReloadPayloads) : ExtractSuccess(data)
    \/ RenderParse
    \/ RenderInnerBlock
    \/ RenderMethod
    \/ RenderSummary
    \/ RenderView

Spec == Init /\ [][Next]_vars

(***************************************************************************)
(* apiClient: retry with exponential backoff, errors turned into ApiError. *)
(* Strings of this component are TLA+ strings; "" stands for a value that  *)
(* is undefined or empty (both are falsy and none is read in another way). *)
(***************************************************************************)
MAX_RETRIES == 3
RETRY_DELAY_BASE == 1000
MaxRequests == 2

\* a || b on strings
Or(a, b) == IF a # "" THEN a ELSE b

\* validateStatus: (status) => status >= 200 && status < 300
validateStatus(status) == status >= 200 /\ status < 300

\* the body of a response with a detail member, with an error member, with
\* neither; json is its text
WithDetail == [detail |-> "Session not found", error |-> "",
               json |-> "{\"detail\":\"Session not found\"}"]
WithError == [detail |-> "", error |-> "Upload failed",
              json |-> "{\"error\":\"Upload failed\"}"]
EmptyBody == [detail |-> "", error |-> "", json |-> "{}"]
Bodies == {WithDetail, WithError, EmptyBody}

\* JSON.stringify(data) of a parsed body
StringifyData(data) == data.json

Statuses == {200, 304, 400, 404, 500, 503}
\* the AxiosError settle() raises for a response validateStatus refuses
HttpError(status, data) ==
    [response |-> TRUE, status |-> status, data |-> data,
     code |-> IF status >= 500 THEN "ERR_BAD_RESPONSE" ELSE "ERR_BAD_REQUEST",
     message |-> "Request failed"]
\* the AxiosError of a request that got no response
NetworkError(code, message) ==
    [response |-> FALSE, status |-> 0, data |-> EmptyBody, code |-> code,
     message |-> message]
\* a timeout, a timeout of the socket, a failed DNS lookup, and the browser's
\* error for an unreachable server (offline, connection refused), which newer
\* axios versions give the code ERR_NETWORK and older ones no code
NetworkErrors ==
    {NetworkError("ECONNABORTED", "timeout of 60000ms exceeded"),
     NetworkError("ETIMEDOUT", "timeout of 60000ms exceeded"),
     NetworkError("ENOTFOUND", "getaddrinfo ENOTFOUND"),
     NetworkError("ERR_NETWORK", "Network Error"),
     NetworkError("", "Network Error"),
     NetworkError("ERR_NETWORK", "")}
\* the errors one attempt can end with
Errors ==
    {HttpError(s, d) : s \in {s \in Statuses : ~validateStatus(s)}, d \in Bodies}
    \cup NetworkErrors

\* a mutant of shouldRetry: every error status is retried
shouldRetryAnyStatus(error) ==
    IF ~error.response
    THEN error.code \in {"ECONNABORTED", "ETIMEDOUT", "ENOTFOUND"}
    ELSE error.status >= 400

shouldRetry(error) ==
    IF ~error.response
    THEN error.code \in {"ECONNABORTED", "ETIMEDOUT", "ENOTFOUND"}
    ELSE IF error.status >= 400 /\ error.status < 500 THEN FALSE
    ELSE error.status >= 500

\* a mutant of getRetryDelay: the delay grows by one base per retry
getRetryDelayLinear(count) == RETRY_DELAY_BASE * (count + 1)

getRetryDelay(count) == RETRY_DELAY_BASE * (2 ^ count)

\* new ApiError(message, status, detail)
ApiError(message, status, detail) ==
    [name |-> "ApiError", message |-> message, status |-> status, detail |-> detail]

TimeoutMessage == "Request timeout. The server took too long to respond."
UnreachableMessage == "Network error. Unable to reach the server."

\* a mutant of TransformError: an error without a response is passed on as
\* it is
TransformErrorWithResponse(err) ==
    IF err.response
    THEN ApiError(Or(err.data.detail, Or(err.data.error, Or(err.message, "API Error"))),
                  err.status, Or(err.data.detail, StringifyData(err.data)))
    ELSE [name |-> "AxiosError", message |-> err.message, status |-> 0,
          detail |-> err.code]

\* the end of the response interceptor: Transform error into ApiError
TransformError(err) ==
    IF err.response
    THEN ApiError(Or(err.data.detail, Or(err.data.error, Or(err.message, "API Error"))),
                  err.status, Or(err.data.detail, StringifyData(err.data)))
    ELSE IF err.code \in {"ECONNABORTED", "ETIMEDOUT"}
    THEN ApiError(TimeoutMessage, 0, err.code)
    ELSE ApiError(Or(err.message, UnreachableMessage), 0, err.code)

\* the request interceptor: if (!config['retry-count']) config['retry-count'] = 0
RequestInterceptor(count) == IF count = -1 \/ count = 0 THEN 0 ELSE count

\* a caller makes a request: a new config passes the request interceptor and
\* is dispatched
Request ==
    /\ apiPc \in {"idle", "resolved", "rejected"}
    /\ requests < MaxRequests
    /\ requests' = requests + 1
    /\ retryCount' = RequestInterceptor(-1)
    /\ apiPc' = "sent"
    /\ delay' = 0
    /\ waited' = 0
    /\ settled' = NotSettled
    /\ history' = <<>>
    /\ waits' = <<>>
    /\ UNCHANGED exceptApi

\* (res) => res
ResponseOk(status) ==
    /\ apiPc = "sent"
    /\ validateStatus(status)
    /\ history' = Append(history, [response |-> TRUE, status |-> status,
                                   data |-> EmptyBody, code |-> "", message |-> ""])
    /\ settled' = [name |-> "response", message |-> "", status |-> status,
                   detail |-> ""]
    /\ apiPc' = "resolved"
    /\ UNCHANGED <<retryCount, delay, waited, waits, requests, exceptApi>>

\* async (err) => ...: count the retry and wait, or throw the ApiError
ResponseError(err) ==
    /\ apiPc = "sent"
    /\ history' = Append(history, err)
    /\ IF shouldRetry(err) /\ retryCount < MAX_RETRIES
       THEN /\ retryCount' = retryCount + 1
            /\ delay' = getRetryDelay((retryCount + 1) - 1)
            /\ waited' = 0
            /\ apiPc' = "waiting"
            /\ UNCHANGED settled
       ELSE /\ settled' = TransformError(err)
            /\ apiPc' = "rejected"
            /\ UNCHANGED <<retryCount, delay, waited>>
    /\ UNCHANGED <<waits, requests, exceptApi>>

\* time passes while the interceptor awaits its timer
TimerTick ==
    /\ apiPc = "waiting"
    /\ waited < delay
    /\ waited' = waited + RETRY_DELAY_BASE
    /\ UNCHANGED <<apiPc, retryCount, delay, settled, history, waits, requests,
                   exceptApi>>

\* the timer has expired: return apiClient(config). The merged config keeps
\* the members of config, 'retry-count' among them, and passes the request
\* interceptor again
RetryRequest ==
    /\ apiPc = "waiting"
    /\ waited >= delay
    /\ retryCount' = RequestInterceptor(retryCount)
    /\ waits' = Append(waits, waited)
    /\ apiPc' = "sent"
    /\ UNCHANGED <<delay, waited, settled, history, requests, exceptApi>>

NextApi ==
    \/ Request
    \/ \E status \in Statuses : ResponseOk(status)
    \/ \E err \in Errors : ResponseError(err)
    \/ TimerTick
    \/ RetryRequest

SpecApi == Init /\ [][NextApi]_vars

(***************************************************************************)
(* SessionProvider and the redirect of DocumentAnalysis                    *)
(***************************************************************************)
MaxReloads == 2

\* the arguments tried for setSession
SessionIds == {Word("s1"), Str(<<>>)}
Filenames == {Str(<<"lease", ".", "pdf">>), Str(<<>>)}
ChunkCounts == {Num(0), Num(3)}

\* const sessionData = { sessionId, filename, chunkCount }
SessionData(id, name, count) ==
    Obj(<<KV("sessionId", id), KV("filename", name), KV("chunkCount", count)>>)

\* what the mount effect sets from the stored item: [found, sessionId,
\* filename, chunkCount]; found is FALSE when it sets nothing
NothingLoaded == [found |-> FALSE, sessionId |-> Null, filename |-> Null,
                  chunkCount |-> Null]

\* the body of the mount effect: getItem, JSON.parse, the test of the three
\* members; a SyntaxError or a TypeError is caught and sets nothing
LoadStored(storedSession) ==
    IF ~Truthy(storedSession) THEN NothingLoaded
    ELSE (CHOOSE res \in {
        IF ~r.ok \/ Nullish(r.val) THEN NothingLoaded
        ELSE IF /\ Truthy(Get(r.val, "sessionId"))
                /\ Truthy(Get(r.val, "filename"))
                /\ Get(r.val, "chunkCount").k # "null"
        THEN [found |-> TRUE, sessionId |-> Get(r.val, "sessionId"),
              filename |-> Get(r.val, "filename"),
              chunkCount |-> Get(r.val, "chunkCount")]
        ELSE NothingLoaded
        : r \in {JSONParse(storedSession.s)}} : TRUE)

\* handlers run on a committed render whose effects have run
Interactive == effects = {} /\ ~stale

\* handleSetSession
SetSession(newSessionId, newFilename, newChunkCount) ==
    /\ Interactive
    /\ sessionId' = newSessionId
    /\ filename' = newFilename
    /\ chunkCount' = newChunkCount
    /\ storage' = Str(Stringify(SessionData(newSessionId, newFilename, newChunkCount)))
    /\ stale' = (<<newSessionId, newFilename, newChunkCount>>
                    # <<sessionId, filename, chunkCount>>)
    /\ lastCall' = [op |-> "set", sessionId |-> newSessionId,
                    filename |-> newFilename, chunkCount |-> newChunkCount]
    /\ UNCHANGED <<isSessionActive, effects, route, reloads, exceptSession>>

\* handleClearSession
ClearSession ==
    /\ Interactive
    /\ sessionId' = Null
    /\ filename' = Null
    /\ chunkCount' = Null
    /\ storage' = Null
    /\ stale' = (<<sessionId, filename, chunkCount>> # <<Null, Null, Null>>)
    /\ lastCall' = [NoCall EXCEPT !.op = "clear"]
    /\ UNCHANGED <<isSessionActive, effects, route, reloads, exceptSession>>

\* the page is loaded again on the current route: every component mounts with
\* its initial state, sessionStorage is kept
Reload ==
    /\ reloads < MaxReloads
    /\ reloads' = reloads + 1
    /\ sessionId' = Null
    /\ filename' = Null
    /\ chunkCount' = Null
    /\ isSessionActive' = FALSE
    /\ stale' = FALSE
    /\ effects' = IF route = "/analysis" THEN {"load", "redirect"} ELSE {"load"}
    /\ UNCHANGED <<storage, route, lastCall, exceptSession>>

\* the provider's mount effect
LoadEffect ==
    /\ "load" \in effects
    /\ effects' = effects \ {"load"}
    /\ \E r \in {LoadStored(storage)} :
           IF r.found
           THEN /\ sessionId' = r.sessionId
                /\ filename' = r.filename
                /\ chunkCount' = r.chunkCount
                /\ stale' = TRUE
           ELSE UNCHANGED <<sessionId, filename, chunkCount, stale>>
    /\ UNCHANGED <<storage, isSessionActive, route, reloads, lastCall, exceptSession>>

\* the effect of DocumentAnalysis: if (!isSessionActive) navigate('/upload');
\* the navigation unmounts the page
RedirectEffect ==
    /\ "redirect" \in effects
    /\ effects' = effects \ {"redirect"}
    /\ route' = IF ~isSessionActive THEN "/upload" ELSE route
    /\ UNCHANGED <<storage, sessionId, filename, chunkCount, isSessionActive, stale,
                   reloads, lastCall, exceptSession>>

\* the state has changed and the effects of the last commit have run: the
\* provider renders again, isSessionActive = sessionId !== null; the effect of
\* DocumentAnalysis runs again when this dependency has changed
Rerender ==
    /\ stale
    /\ effects = {}
    /\ stale' = FALSE
    /\ isSessionActive' = (sessionId # Null)
    /\ effects' = IF route = "/analysis" /\ isSessionActive # (sessionId # Null)
                  THEN {"redirect"} ELSE {}
    /\ UNCHANGED <<storage, sessionId, filename, chunkCount, route, reloads,
                   lastCall, exceptSession>>

\* the user goes to the analysis page: DocumentAnalysis mounts
GoToAnalysis ==
    /\ Interactive
    /\ route = "/upload"
    /\ route' = "/analysis"
    /\ effects' = {"redirect"}
    /\ UNCHANGED <<storage, sessionId, filename, chunkCount, isSessionActive, stale,
                   reloads, lastCall, exceptSession>>

NextSession ==
    \/ \E id \in SessionIds, name \in Filenames, count \in ChunkCounts :
           SetSession(id, name, count)
    \/ ClearSession
    \/ Reload
    \/ LoadEffect
    \/ RedirectEffect
    \/ Rerender
    \/ GoToAnalysis

SpecSession == Init /\ [][NextSession]_vars

(***************************************************************************)
(* VoiceAssistantTab: recording                                            *)
(***************************************************************************)
\* the recorders created so far
Created == {r \in Recorders : recorders[r] # "none"}
\* the state of the component differs from the render on the screen
VoiceStale == shown # [isVoiceActive |-> isVoiceActive, recording |-> recording]

\* stopRecording: the recorders stop() is called on (the one of the ref
\* unless it is inactive)
StopRecording ==
    IF mediaRecorderRef # 0 /\ recorders[mediaRecorderRef] # "inactive"
    THEN {mediaRecorderRef} ELSE {}

\* a click on the microphone button: toggleRecording up to its await, with
\* startRecording up to the call of getUserMedia
ToggleRecording ==
    /\ ~VoiceStale
    /\ IF shown.isVoiceActive
       THEN /\ isVoiceActive' = FALSE
            /\ \E stopped \in {IF shown.recording THEN StopRecording ELSE {}} :
                   /\ recorders' = [r \in Recorders |->
                                       IF r \in stopped THEN "inactive" ELSE recorders[r]]
                   /\ stopQueue' = stopQueue \cup stopped
            /\ UNCHANGED pendingMedia
       ELSE /\ Cardinality(Created) + pendingMedia < MaxRecorders
            /\ isVoiceActive' = TRUE
            /\ pendingMedia' = pendingMedia + 1
            /\ UNCHANGED <<recorders, stopQueue>>
    /\ UNCHANGED <<recording, loading, shown, mediaRecorderRef, tracks, uploads,
                   exceptVoice>>

\* getUserMedia resolves: the rest of startRecording's try block
MediaGranted ==
    /\ pendingMedia > 0
    /\ pendingMedia' = pendingMedia - 1
    /\ \E mr \in {Cardinality(Created) + 1} :
           /\ recorders' = [recorders EXCEPT ![mr] = "recording"]
           /\ tracks' = [tracks EXCEPT ![mr] = "live"]
           /\ mediaRecorderRef' = mr
    /\ recording' = TRUE
    /\ UNCHANGED <<isVoiceActive, loading, shown, stopQueue, uploads, exceptVoice>>

\* getUserMedia rejects: the catch block of startRecording
MediaDenied ==
    /\ pendingMedia > 0
    /\ pendingMedia' = pendingMedia - 1
    /\ UNCHANGED <<isVoiceActive, recording, loading, shown, mediaRecorderRef,
                   recorders, tracks, stopQueue, uploads, exceptVoice>>

\* the stop event of a recorder: its listener up to await uploadAudio(blob),
\* uploadAudio up to await fetch
RecorderStopped(mr) ==
    /\ mr \in stopQueue
    /\ stopQueue' = stopQueue \ {mr}
    /\ recording' = FALSE
    /\ loading' = TRUE
    /\ uploads' = uploads \cup {mr}
    /\ UNCHANGED <<isVoiceActive, shown, mediaRecorderRef, recorders, tracks,
                   pendingMedia, exceptVoice>>

\* the upload of a recording ends, well or not: the finally block of
\* uploadAudio, then the rest of the stop listener
UploadEnded(mr) ==
    /\ mr \in uploads
    /\ uploads' = uploads \ {mr}
    /\ loading' = FALSE
    /\ isVoiceActive' = FALSE
    /\ tracks' = [tracks EXCEPT ![mr] = "stopped"]
    /\ mediaRecorderRef' = 0
    /\ UNCHANGED <<recording, shown, recorders, pendingMedia, stopQueue, exceptVoice>>

\* the component renders its state
VoiceRender ==
    /\ VoiceStale
    /\ shown' = [isVoiceActive |-> isVoiceActive, recording |-> recording]
    /\ UNCHANGED <<isVoiceActive, recording, loading, mediaRecorderRef, recorders,
                   tracks, pendingMedia, stopQueue, uploads, exceptVoice>>

NextVoice ==
    \/ ToggleRecording
    \/ MediaGranted
    \/ MediaDenied
    \/ \E mr \in Recorders : RecorderStopped(mr)
    \/ \E mr \in Recorders : UploadEnded(mr)
    \/ VoiceRender

SpecVoice == Init /\ [][NextVoice]_vars

(***************************************************************************)
(* The News page: fetchNews                                                *)
(***************************************************************************)
MaxFetches == 3

\* the categories and the search texts tried; no one of these strings occurs
\* in another
CATEGORIES == {"Technology", "AI", "Legal"}
Queries == {"GDPR", " "}

\* toLowerCase, trim and includes on these strings
NewsLower(s) ==
    CASE s = "Technology" -> "technology"
      [] s = "AI" -> "ai"
      [] s = "Legal" -> "legal"
      [] s = "GDPR" -> "gdpr"
      [] OTHER -> s
NewsTrim(s) == IF s = " " THEN "" ELSE s
Includes(hay, needle) == needle = "" \/ hay = needle

\* the articles a source returns for a topic: one article about it, or none
ArticlesFor(topic) ==
    {<<[title |-> topic, description |-> "", topic |-> topic]>>, <<>>}

\* t.errorMessage
ErrorMessage == "Failed to fetch news. Please try again."

\* the start of fetchNews(topic), up to the first await
FetchNews(topic) ==
    /\ Len(fetches) < MaxFetches
    /\ newsLoading' = TRUE
    /\ newsError' = ""
    /\ fetches' = Append(fetches, [topic |-> topic, stage |-> "backend", set |-> <<>>])

\* useEffect(() => { fetchNews(selectedCategory.toLowerCase()) }, [selectedCategory])
CategoryEffect ==
    /\ effectDue
    /\ effectDue' = FALSE
    /\ FetchNews(NewsLower(selectedCategory))
    /\ UNCHANGED <<articles, selectedCategory, searchQuery, exceptNews>>

\* a click on a category button
SelectCategory(category) ==
    /\ ~effectDue
    /\ selectedCategory' = category
    /\ searchQuery' = ""
    /\ effectDue' = (category # selectedCategory)
    /\ UNCHANGED <<articles, newsLoading, newsError, fetches, exceptNews>>

\* typing in the search box
ChangeQuery(text) ==
    /\ ~effectDue
    /\ searchQuery' = text
    /\ UNCHANGED <<articles, newsLoading, newsError, selectedCategory, effectDue,
                   fetches, exceptNews>>

\* handleSearch
Search ==
    /\ ~effectDue
    /\ NewsTrim(searchQuery) # ""
    /\ FetchNews(NewsLower(searchQuery))
    /\ UNCHANGED <<articles, selectedCategory, searchQuery, effectDue, exceptNews>>

\* the backend proxy answers the i-th call with an array: setArticles(json),
\* return, finally
BackendReturns(i, json) ==
    /\ fetches[i].stage = "backend"
    /\ articles' = json
    /\ fetches' = [fetches EXCEPT ![i] = [@ EXCEPT !.stage = "done", !.set = json]]
    /\ newsLoading' = FALSE
    /\ UNCHANGED <<newsError, selectedCategory, searchQuery, effectDue, exceptNews>>

\* the backend proxy fails (not ok, not an array, or fetch rejects): the call
\* goes on with the RSS feed
BackendFails(i) ==
    /\ fetches[i].stage = "backend"
    /\ fetches' = [fetches EXCEPT ![i] = [@ EXCEPT !.stage = "fallback"]]
    /\ UNCHANGED <<articles, newsLoading, newsError, selectedCategory, searchQuery,
                   effectDue, exceptNews>>

\* the RSS feed answers the i-th call: setArticles(parsed || []), finally
FeedReturns(i, parsed) ==
    /\ fetches[i].stage = "fallback"
    /\ articles' = parsed
    /\ fetches' = [fetches EXCEPT ![i] = [@ EXCEPT !.stage = "done", !.set = parsed]]
    /\ newsLoading' = FALSE
    /\ UNCHANGED <<newsError, selectedCategory, searchQuery, effectDue, exceptNews>>

\* the RSS feed fails: the catch block, finally
FeedFails(i) ==
    /\ fetches[i].stage = "fallback"
    /\ newsError' = ErrorMessage
    /\ articles' = <<>>
    /\ fetches' = [fetches EXCEPT ![i] = [@ EXCEPT !.stage = "done", !.set = <<>>]]
    /\ newsLoading' = FALSE
    /\ UNCHANGED <<selectedCategory, searchQuery, effectDue, exceptNews>>

\* displayArticles
DisplayArticles ==
    IF NewsTrim(searchQuery) # ""
    THEN SelectSeq(articles,
                   LAMBDA article :
                       \/ Includes(NewsLower(article.title), NewsLower(searchQuery))
                       \/ Includes(NewsLower(article.description), NewsLower(searchQuery)))
    ELSE articles

NextNews ==
    \/ CategoryEffect
    \/ \E category \in CATEGORIES : SelectCategory(category)
    \/ \E text \in Queries \cup {""} : ChangeQuery(text)
    \/ Search
    \/ \E i \in 1..Len(fetches) : \E json \in ArticlesFor(fetches[i].topic) :
           BackendReturns(i, json)
    \/ \E i \in 1..Len(fetches) : BackendFails(i)
    \/ \E i \in 1..Len(fetches) : \E parsed \in ArticlesFor(fetches[i].topic) :
           FeedReturns(i, parsed)
    \/ \E i \in 1..Len(fetches) : FeedFails(i)

SpecNews == Init /\ [][NextNews]_vars

(***************************************************************************)
(* What the claims are stated with                                         *)
(***************************************************************************)
Methods == {"array", "objects", "raw-text", "none"}
\* the extraction result of the current render is computed
Done == pc \in {"summary", "summary-crashed", "view", "done"}
\* the render is complete
Rendered == pc = "done"
records == effectiveClauses
method == parseMethod

\* clauses[0].text and clauses[0].body of the payload on the page
TextField == OptGet(OptFirst(OptGet(extractedClausesRaw, "clauses")), "text")
BodyField == OptGet(OptFirst(OptGet(extractedClausesRaw, "clauses")), "body")
TextIs(s) == TextField = Str(s)

IsObj(v) == v.k = "obj"
AllObjs(batch) == \A i \in 1..Len(batch) : IsObj(batch[i])
ObjBatches == {b \in Batches : Len(b) >= 1 /\ AllObjs(b)}

\* the first of the named properties of obj that is present, else default
RECURSIVE FirstPresent(_, _, _)
FirstPresent(obj, names, default) ==
    IF names = <<>> THEN default
    ELSE IF \E i \in 1..Len(obj.o) :
                obj.o[i].key = <<Head(names)>> /\ obj.o[i].val.k \notin {"null", "undef"}
    THEN (CHOOSE e \in {obj.o[i] : i \in 1..Len(obj.o)} : e.key = <<Head(names)>>).val
    ELSE FirstPresent(obj, Tail(names), default)

\* the fields the stated resolution order gives the record of obj
StatedFields(obj) ==
    [text |-> FirstPresent(obj, <<"clause_text", "text">>, Str(<<>>)),
     type |-> FirstPresent(obj, <<"clause_type_category", "clause_type", "type">>,
                           Word("Unspecified")),
     risk |-> LET r == FirstPresent(obj, <<"risk_level", "risk">>, Word("moderate"))
              IN  IF r.k = "str" THEN Str([i \in 1..Len(r.s) |-> LowerTok(r.s[i])])
                  ELSE Str(ToLowerCase(ToStr(r))),
     implications |-> FirstPresent(obj, <<"brief_explanation_of_implications",
                                          "implications">>, Null)]
FieldsOf(rec) == [text |-> rec.text, type |-> rec.type, risk |-> rec.risk,
                  implications |-> rec.implications]
\* the records stated for a batch of objects: stated fields, id = position
StatedRecords(batch) ==
    [i \in 1..Len(batch) |->
        LET f == StatedFields(batch[i])
        IN  ClauseRecord(Num(i - 1), f.text, f.type, f.risk, f.implications)]

HasBracket(s) == \E i \in 1..Len(s) : s[i] \in {"[", "]", "{", "}"}

\* C1: for every payload the extraction result is computed without throwing
\* and the method is one of array, objects, raw-text, none
C1_NeverThrows ==
    /\ pc # "crashed"
    /\ Done => method \in Methods

\* C2: prose without brace or bracket characters in clauses[0].text gives no
\* records and method raw-text; a payload with no candidate string at all
\* (no string in text or body, no bracketed region in its serialization)
\* gives no records and method none
C2_NothingExtractable ==
    Done =>
        /\ (TextField.k = "str" /\ TextField.s # <<>> /\ ~HasBracket(TextField.s))
              => (records = <<>> /\ method = "raw-text")
        /\ (TextField.k # "str" /\ BodyField.k # "str"
            /\ ~HasBracket(Stringify(extractedClausesRaw)))
              => (records = <<>> /\ method = "none")

DoubleEncodedOf == [b \in ObjBatches |-> DoubleEncoded(b)]
\* C3: an array of clause objects JSON-encoded once more as a quoted string
\* is recovered by the unquote-then-parse tier: one record per object of the
\* inner array, in order, method array
C3_DoubleEncoded ==
    Done => \A b \in ObjBatches :
        TextIs(DoubleEncodedOf[b]) =>
            /\ tier = "unquote"
            /\ records = StatedRecords(b)
            /\ method = "array"

FlatPairs == {b \in ObjBatches : Len(b) = 2}
ObjectsOf == [b \in FlatPairs |-> Objects(b)]
\* C4: two valid flat objects without an enclosing array followed by one
\* malformed fragment give exactly the 2 records of the well-formed objects,
\* in order, with method objects
C4_ObjectsWithoutBrackets ==
    Done => \A b \in FlatPairs :
        TextIs(ObjectsOf[b]) =>
            /\ records = StatedRecords(b)
            /\ method = "objects"

\* C5: every record of every result has id equal to its 0-based position
C5_IdIsPosition ==
    Done => \A i \in 1..Len(records) : records[i].id = Num(i - 1)

DirectForms(b) ==
    {TextPayload(Bare(b)), DirectPayload(b), WithSources(DirectPayload(b))}
DirectFormsOf == [b \in ObjBatches |-> DirectForms(b)]
\* C6: every raw object turned into a record, through the text tiers or
\* through the direct use of the clauses array, gets its fields by the stated
\* precedence and defaults
C6_FieldResolution ==
    Done => \A b \in ObjBatches :
        (extractedClausesRaw \in DirectFormsOf[b] /\ Len(records) = Len(b)) =>
            \A i \in 1..Len(b) : FieldsOf(records[i]) = StatedFields(b[i])

\* the string the locator's primary field path yields, <<>> when it yields none
PrimaryString ==
    IF TextField.k = "str" THEN TextField.s
    ELSE IF Nullish(TextField) /\ BodyField.k = "str" THEN BodyField.s
    ELSE <<>>
\* C7: when text, or text being absent body, is a non-empty string and no
\* record was extracted, the method is raw-text
C7_NoneOnlyWithoutCandidate ==
    (Done /\ PrimaryString # <<>> /\ records = <<>>) => method = "raw-text"

\* the five tiers on the cleaned candidate, in the stated order
TierResults(cleaned) ==
    <<TryArray(cleaned), TryArray(Unquote(cleaned)), TryArray(UnescapeText(cleaned)),
      TryBracket(cleaned), TryObjects(cleaned)>>
Succeeds(r) == r.hit /\ Len(r.recs) > 0
\* C8: the result is the records of the first tier, in the order strict,
\* unquote, unescape, bracket, per-object, that produces a non-empty list; a
\* tier producing nothing or an empty list does not end the search
C8_FirstSuccessfulTier ==
    (Done /\ PrimaryString # <<>>) =>
        LET res == TierResults(Clean(PrimaryString))
        IN  \A k \in 1..5 :
                (Succeeds(res[k]) /\ \A j \in 1..(k - 1) : ~Succeeds(res[j]))
                    => records = res[k].recs

MixedSources == {b \in Batches : (\E i \in 1..Len(b) : IsObj(b[i]))
                                 /\ (\E i \in 1..Len(b) : ~IsObj(b[i]))}
BareOf == [b \in MixedSources |-> Bare(b)]
\* C9: a batch mixing valid clause objects with elements that are no objects
\* yields exactly the records of the valid objects, in their relative order
C9_InvalidElementsDropped ==
    Done => \A b \in MixedSources :
        TextIs(BareOf[b]) => records = StatedRecords(SelectSeq(b, IsObj))

CanonBatches == {b \in ObjBatches : \A i \in 1..Len(b) : b[i] \in {Canon, Alt, Both}}
\* every such text with the records stated for it
StrictCases ==
    UNION {{[text |-> f, recs |-> StatedRecords(b)] :
                f \in {Bare(b)} \cup FencedForms(Bare(b))} : b \in CanonBatches}
\* C10: a valid JSON array of n >= 1 objects with all four fields, bare or
\* wrapped in a leading fence (with or without json) and a trailing fence,
\* gives exactly its n records in source order through the strict parse,
\* method array
C10_StrictAndFenced ==
    (Done /\ TextField.k = "str") => \A c \in StrictCases :
        TextField.s = c.text =>
            /\ tier = "strict"
            /\ records = c.recs
            /\ method = "array"
C10_Witness ==
    /\ Done
    /\ TextIs(Fenced(<<"json">>, <<LF>>, Bare(<<Canon, Alt, Canon>>)))
    /\ Len(records) = 3
    /\ tier = "strict"

\* the forms of an array with prose before it, after it, or both
ProseForms(b) == {LeadingProse(Bare(b)), TrailingProse(Bare(b)), InProse(Bare(b))}
ProseBatches == {b \in Batches : AllObjs(b)}
\* every such text with the records stated for it
ProseCases ==
    UNION {{[text |-> f, recs |-> StatedRecords(b)] : f \in ProseForms(b)} :
            b \in ProseBatches}
NonEmptyProseCases == {c \in ProseCases : Len(c.recs) >= 1}
\* C11: a valid JSON array of n clause objects with prose without brackets
\* before and/or after it is recovered by the bracket-substring tier: exactly
\* its n records in order, method array
C11_ArrayInProse ==
    (Done /\ TextField.k = "str") => \A c \in ProseCases :
        TextField.s = c.text =>
            /\ tier = "bracket"
            /\ records = c.recs
            /\ method = "array"
\* C11 amended: the same for n >= 1
C11_NonEmptyArrayInProse ==
    (Done /\ TextField.k = "str") => \A c \in NonEmptyProseCases :
        TextField.s = c.text =>
            /\ tier = "bracket"
            /\ records = c.recs
            /\ method = "array"
C11_Witness ==
    /\ Done
    /\ TextIs(LeadingProse(Bare(<<Canon, Alt>>)))
    /\ tier = "bracket"
    /\ Len(records) = 2
    /\ method = "array"

\* the clauses field of the payload on the page
ClausesField == OptGet(extractedClausesRaw, "clauses")
\* no tier on the candidate string produces a non-empty list
TiersYieldNothing ==
    PrimaryString = <<>>
    \/ LET res == TierResults(Clean(PrimaryString))
       IN  \A k \in 1..5 : ~Succeeds(res[k])
\* rec is a record of the clause entry e
RecordOfEntry(rec, e) ==
    rec.text \in {Coalesce(Coalesce(Get(e, "clause_text"), Get(e, "text")), Str(<<>>)),
                  Coalesce(Coalesce(Get(e, "text"), Get(e, "clause_text")), Str(<<>>))}
\* C12: when the five tiers yield nothing, or there is no candidate string,
\* and clauses is an array of n >= 1 objects, the result has one record per
\* element of clauses, in order, with method array; records come from the
\* payload only after the five tiers yielded nothing
C12_DirectArrayFallback ==
    Done =>
        /\ (ClausesField.k = "arr" /\ Len(ClausesField.a) >= 1
            /\ AllObjs(ClausesField.a) /\ TiersYieldNothing) =>
                /\ Len(records) = Len(ClausesField.a)
                /\ \A i \in 1..Len(records) : RecordOfEntry(records[i], ClausesField.a[i])
                /\ method = "array"
        /\ tier \in {"payload-scan", "last-resort"} => TiersYieldNothing

\* the tokens of the payloads that have an upper-case letter
Capitalised == {"High", "HIGH", "Safe", "SAFE", "Moderate", "Object", "Unspecified",
                "JSON", "Json", "Payment", "Term", "Liability", "Other", "Late", "No",
                "Here", "Done", "Ok"}
LowerCased(v) == v.k = "str" /\ \A i \in 1..Len(v.s) : v.s[i] \notin Capitalised
\* C14: the risk of every record of every result is a string without
\* upper-case letters
C14_RiskLowerCased ==
    Done => \A i \in 1..Len(records) : LowerCased(records[i].risk)
C14_Witness ==
    /\ Done
    /\ extractedClausesRaw = WithSources(DirectPayload(<<Canon>>))
    /\ tier = "last-resort"
    /\ Get(Canon, "risk_level") = Word("High")
    /\ records[1].risk = Word("high")

\* C15: cleaning is idempotent: cleaning the cleaned inner block gives the
\* cleaned inner block again
C15_CleanIdempotent ==
    (Done /\ TextField.k = "str" /\ cleanedInnerBlock.k = "str") =>
        /\ cleanedInnerBlock.s = Clean(TextField.s)
        /\ Clean(cleanedInnerBlock.s) = cleanedInnerBlock.s

NoFence(s) == \A i \in 1..Len(s) : s[i] # FENCE
\* the candidate without a fence, with the json tag and the blanks after it,
\* at its very start
StripLeadingFence(s) ==
    IF Len(s) >= 1 /\ s[1] = FENCE
    THEN LET c == SkipWs(s, IF Len(s) >= 2 /\ s[2] \in JsonTag THEN 3 ELSE 2)
         IN  SubSeq(s, c, Len(s))
    ELSE s
\* the candidate without a fence, and the blanks before it, at its very end
StripTrailingFence(s) ==
    IF Len(s) >= 1 /\ s[Len(s)] = FENCE
    THEN LET S == {i \in 1..(Len(s) - 1) : s[i] \notin WS}
         IN  IF S = {} THEN <<>> ELSE SubSeq(s, 1, Max(S))
    ELSE s
\* the stated result: a fence at the start and a fence at the end removed,
\* the rest trimmed, the candidate being taken as given or trimmed first
StatedClean(s) == Trim(StripTrailingFence(StripLeadingFence(s)))
\* C16: cleaning removes only a fence at the start of the candidate and a
\* fence at its end and trims; what is in between, fences included, is
\* unchanged, and a candidate without fences is returned trimmed
C16_CleanFrame ==
    (Done /\ TextField.k = "str" /\ cleanedInnerBlock.k = "str") =>
        /\ cleanedInnerBlock.s \in {StatedClean(TextField.s), StatedClean(Trim(TextField.s))}
        /\ NoFence(TextField.s) => cleanedInnerBlock.s = Trim(TextField.s)

\* generateSummary has returned or thrown
SummaryEnded == pc \in {"view", "done", "summary-crashed"}
SummaryField == OptGet(extractedClausesRaw, "summary")
Blank(s) == \A i \in 1..Len(s) : s[i] \in WS
\* C17: a payload with a non-empty string summary has exactly that string as
\* its summary, whatever the records are
C17_ExplicitSummary ==
    (SummaryEnded /\ SummaryField.k = "str" /\ SummaryField.s # <<>>) =>
        /\ pc # "summary-crashed"
        /\ finalSummary = SummaryField.s
\* C17 amended: the same for a string summary that is not blank
C17_NonBlankSummary ==
    (SummaryEnded /\ SummaryField.k = "str" /\ ~Blank(SummaryField.s)) =>
        /\ pc # "summary-crashed"
        /\ finalSummary = SummaryField.s
C17_Witness ==
    /\ Rendered
    /\ extractedClausesRaw
         = WithSummary(TextPayload(Bare(<<NonString>>)), Str(<<SP, "Ok", SP>>))
    /\ Len(records) = 1
    /\ finalSummary = <<SP, "Ok", SP>>

\* needle occurs in hay
Contains(hay, needle) ==
    \E i \in 0..(Len(hay) - Len(needle)) : SubSeq(hay, i + 1, i + Len(needle)) = needle
HasExplicitSummary == SummaryField.k = "str" /\ SummaryField.s # <<>>
FirstFive == SubSeq(records, 1, IF Len(records) < 5 THEN Len(records) ELSE 5)
\* the text of a type value
TypeText(v) == IF v.k = "str" THEN v.s ELSE ToStr(v)
\* C18: without a non-empty string summary and with records, the synthesized
\* summary contains the type of at least one of the first 5 records
C18_SummaryNamesAType ==
    (SummaryEnded /\ ~HasExplicitSummary /\ records # <<>>) =>
        /\ pc # "summary-crashed"
        /\ \E i \in 1..Len(FirstFive) : Contains(finalSummary, TypeText(FirstFive[i].type))

\* generateSummary has synthesized a summary from the records
Synthesized ==
    /\ pc \in {"view", "done"}
    /\ ~(SummaryField.k = "str" /\ ~Blank(SummaryField.s))
    /\ records # <<>>
\* the sentence naming the categories cats, the implications impls, the risks rs
SummaryText(cats, impls, rs) ==
    Trim(CollapseWs(
        Intro \o (IF cats = <<>> THEN GeneralTerms ELSE Join(cats, <<",", SP>>, 1))
        \o <<".", SP>>
        \o (IF impls = <<>> THEN <<>>
            ELSE ImplicationsIntro \o Join(impls, <<";", SP>>, 1) \o <<".">>)
        \o <<SP>>
        \o (IF rs = <<>> THEN <<>> ELSE RisksIntro \o Join(rs, <<",", SP>>, 1) \o <<".">>)))
\* the values of one field of the first 5 records, as texts
FieldTexts(f) == [i \in 1..Len(FirstFive) |-> TypeText(FirstFive[i][f])]
\* the texts of the implications of the first 5 records that satisfy Listed
ImplicationTexts(Listed(_)) ==
    LET impls == [i \in 1..Len(FirstFive) |-> FirstFive[i].implications]
        kept == KeepRange(impls, {i \in 1..Len(impls) : ~Listed(impls[i])}, 1, Len(impls))
    IN  [i \in 1..Len(kept) |-> TypeText(kept[i])]
NotNull(v) == ~Nullish(v)
\* C19: the summary is built from the first 5 records only: it names the
\* first (at most 4) distinct type values of those 5 in first-seen order,
\* lists their implications that are not null (at most 5) and each of their
\* distinct risk values once
C19_SummaryOfFirstFive ==
    Synthesized =>
        finalSummary = SummaryText(Slice(Distinct(FieldTexts("type")), 4),
                                   ImplicationTexts(NotNull),
                                   Distinct(FieldTexts("risk")))
\* the type of a record as the summary shows it: trimmed, "" for a falsy one
TrimmedTypes ==
    [i \in 1..Len(FirstFive) |->
        IF Truthy(FirstFive[i].type) THEN Trim(TypeText(FirstFive[i].type)) ELSE <<>>]
\* C19 amended: the same with the type values trimmed and the empty type,
\* risk and implication values left out (the general phrase names the
\* categories when no type is left)
C19_SummaryOfFirstFiveNonEmpty ==
    Synthesized =>
        finalSummary = SummaryText(Slice(Distinct(NonEmpty(TrimmedTypes)), 4),
                                   ImplicationTexts(Truthy),
                                   Distinct(NonEmpty(FieldTexts("risk"))))
C19_Witness ==
    /\ Rendered
    /\ TextIs(Bare(<<EmptyType, Canon, Alt, NullFirst, Category, Sixth>>))
    /\ Len(records) = 6
    /\ Contains(finalSummary, <<"Payment", ",", SP, "Term", ",", SP, "Liability", ",", SP,
                                "Unspecified", ".">>)
    /\ ~Contains(finalSummary, <<"Late">>)
    /\ ~Contains(finalSummary, <<"critical">>)

\* the number of records of the result with the given risk
CountOf(level) == Cardinality({i \in 1..Len(records) : records[i].risk = Word(level)})
\* C20: the page shows one clause card per record of the extraction result,
\* in order, and the three risk counts are taken over the same records,
\* whatever the method is
C20_CardsAreRecords ==
    Rendered =>
        /\ cards = records
        /\ riskCounts = [safe |-> CountOf("safe"), moderate |-> CountOf("moderate"),
                         high |-> CountOf("high")]

\* C27: generateSummary returns a string and does not throw, whatever the
\* payload and the records are
C27_SummaryNeverThrows == pc # "summary-crashed"

\* C28: records is non-empty exactly when method is 'array' or 'objects',
\* and empty exactly when method is 'raw-text' or 'none'
C28_MethodMatchesRecords ==
    Done =>
        /\ method \in Methods
        /\ (records # <<>>) <=> (method \in {"array", "objects"})
        /\ (records = <<>>) <=> (method \in {"raw-text", "none"})
C28_Witness ==
    /\ Done
    /\ method = "objects"
    /\ Len(records) >= 1
    /\ parsedClauses = <<>>

(***************************************************************************)
(* apiClient                                                               *)
(***************************************************************************)
\* the answer of the latest attempt
LastAnswer == history[Len(history)]
ServerError(a) == a.response /\ a.status >= 500 /\ a.status < 600
ClientError(a) == a.response /\ a.status >= 400 /\ a.status < 500
\* every attempt of the request so far has failed with a 5xx response
KeepsFailing == requests > 0 /\ \A i \in 1..Len(history) : ServerError(history[i])
\* C21: a request that keeps failing with a 5xx response is attempted at
\* most 4 times; the k-th retry is issued only after 1000 * 2^(k-1) ms; the
\* request rejects after the 4th failure and not before; the retry counter
\* is the number of retries made so far, never reset between the attempts
C21_ServerErrorRetried ==
    KeepsFailing =>
        /\ Len(history) <= 4
        /\ Len(waits) <= 3
        /\ \A k \in 1..Len(waits) : waits[k] >= 1000 * (2 ^ (k - 1))
        /\ (apiPc = "rejected") <=> (Len(history) = 4)
        /\ apiPc # "resolved"
        /\ apiPc = "sent" => (retryCount = Len(history) /\ Len(waits) = retryCount)
        /\ apiPc = "waiting" => retryCount = Len(history)
        /\ apiPc = "rejected" => retryCount = 3
C21_Witness ==
    /\ KeepsFailing
    /\ apiPc = "rejected"
    /\ Len(history) = 4
    /\ waits = <<1000, 2000, 4000>>

NoResponseYet == requests > 0 /\ \A i \in 1..Len(history) : ~history[i].response
\* C23: a request whose attempts all fail without a response rejects only
\* after 3 retries, issued after 1, 2 and 4 seconds
C23_NetworkErrorRetried ==
    (NoResponseYet /\ apiPc = "rejected") =>
        /\ Len(history) = 4
        /\ waits = <<1000, 2000, 4000>>

\* C24: a request that has finally failed rejected with an ApiError; its
\* status is the status of the response when there was one and 0 when there
\* was none, and after a timeout its message is the request-timeout message
C24_RejectsWithApiError ==
    apiPc = "rejected" =>
        /\ settled.name = "ApiError"
        /\ settled.status = (IF LastAnswer.response THEN LastAnswer.status ELSE 0)
        /\ (~LastAnswer.response /\ LastAnswer.code \in {"ECONNABORTED", "ETIMEDOUT"})
               => settled.message = "Request timeout. The server took too long to respond."
C24_Witness ==
    /\ apiPc = "rejected"
    /\ Len(history) = 4
    /\ ~LastAnswer.response
    /\ LastAnswer.code = "ETIMEDOUT"
    /\ settled.name = "ApiError"
    /\ settled.status = 0

(***************************************************************************)
(* SessionProvider                                                         *)
(***************************************************************************)
\* a page load has happened, its effects have run and the result is rendered
Reloaded == reloads > 0 /\ effects = {} /\ ~stale
\* C25: once the page has been loaded again, the provider's state is what
\* the latest setSession was called with and isSessionActive is true, and
\* it is empty with isSessionActive false when the latest call was
\* clearSession
C25_SessionRoundTrips ==
    Reloaded =>
        /\ (lastCall.op = "set") =>
               (/\ sessionId = lastCall.sessionId
                /\ filename = lastCall.filename
                /\ chunkCount = lastCall.chunkCount
                /\ isSessionActive)
        /\ (lastCall.op = "clear") =>
               (/\ <<sessionId, filename, chunkCount>> = <<Null, Null, Null>>
                /\ ~isSessionActive)

\* sessionStorage holds a session with an id, a file name and a chunk count
ValidStored ==
    \E id \in SessionIds, name \in Filenames, count \in ChunkCounts :
        /\ id.s # <<>>
        /\ name.s # <<>>
        /\ storage = Str(Stringify(SessionData(id, name, count)))
\* C26: DocumentAnalysis navigates to /upload only when there is no session
\* in the provider's state and no valid session in sessionStorage
C26_RedirectOnlyWithoutSession ==
    [][(route = "/analysis" /\ route' = "/upload")
           => (sessionId = Null /\ ~ValidStored)]_vars

(***************************************************************************)
(* VoiceAssistantTab                                                       *)
(***************************************************************************)
Recording == {r \in Recorders : recorders[r] = "recording"}
\* C29: at most one MediaRecorder is in the recording state at any time
C29_OneRecorderAtATime == Cardinality(Recording) <= 1

(***************************************************************************)
(* The News page                                                           *)
(***************************************************************************)
\* every call of fetchNews made so far has completed and none is due
AllFetched ==
    /\ ~effectDue
    /\ Len(fetches) >= 1
    /\ \A i \in 1..Len(fetches) : fetches[i].stage = "done"
\* C30: once every fetch has completed, the articles of the page are those
\* the most recently requested fetch has returned, and they are the ones
\* displayed when the search box is empty
C30_LatestTopicShown ==
    AllFetched =>
        /\ articles = fetches[Len(fetches)].set
        /\ (NewsTrim(searchQuery) = "") => (DisplayArticles = fetches[Len(fetches)].set)
====
